---- MODULE Spec2Model ----
(***************************************************************************)
(* Model of scripts/test/parallel-runner.py: main(), run_tests_in_parallel *)
(* (a ThreadPoolExecutor fan-out with an as_completed aggregation loop)    *)
(* and run_behave_file (one child process per work item).                  *)
(*                                                                         *)
(* The main thread is a sequential process whose position is pc; each work *)
(* item is a future whose position is status[i].  The child process is the *)
(* environment: its outcome is drawn when subprocess.run returns.          *)
(***************************************************************************)
EXTENDS Integers, Sequences, FiniteSets, TLC

VARIABLES
    feature_files,   \* main: the candidate list (line 140)
    fs_existing,     \* the paths for which os.path.exists is true (line 146)
    max_processes,   \* max_workers of the pool (line 92)
    runner,          \* how the external runner behaves in this environment
    pc,              \* position of the main thread
    existing_files,  \* main: the filtered list handed to run_tests_in_parallel
    status,          \* per work item: "unsubmitted", "queued", "running", "finished"
    calls,           \* per work item: number of run_behave_file calls started
    child,           \* per work item: what its child process did
    future,          \* per work item: the future's result or exception
    num_threads,     \* worker threads started by the pool
    early,           \* as_completed: futures finished before the loop, not yet yielded
    waiter,          \* as_completed: futures finished since, in completion order
    results,         \* run_tests_in_parallel: the result list (line 90)
    stdout,          \* lines printed by the main thread, in order
    passed,          \* summary (line 120)
    failed,          \* summary (line 121)
    exit_arg,        \* <<n>> once sys.exit(n) was called, <<>> before
    options,         \* behave_command, tags, output_format, dry_run of the call
    cmd,             \* per work item: the argument list handed to subprocess.run
    done_order,      \* history: the items in the order their calls returned
    reported,        \* history: the items in the order the loop handled them
    test_context,    \* features/steps/advanced_steps.py: the module-level TestContext
    clicked,         \* history: 'I click the login button' ran in the current scenario
    last_step        \* history: the step that ran last and whether it passed

vars == <<feature_files, fs_existing, max_processes, runner, pc, existing_files,
          status, calls, child, future, num_threads, early, waiter, results,
          stdout, passed, failed, exit_arg, options, cmd, done_order, reported,
          test_context, clicked, last_step>>

runnerVars == <<feature_files, fs_existing, max_processes, runner, pc,
                existing_files, status, calls, child, future, num_threads, early,
                waiter, results, stdout, passed, failed, exit_arg, options, cmd,
                done_order, reported>>

stepVars == <<test_context, clicked, last_step>>

----------------------------------------------------------------------------
(* Bounds of the model. *)

MaxFiles == 2

MaxProcs == 2

\* the records 'I insert test data' may pile up in database_data
MaxRecords == 2

WideFiles == 256

Files == {"features/test.feature", "features/advanced-example.feature"}

----------------------------------------------------------------------------
(* Program and platform constants. *)

\* subprocess.run(..., timeout=300)
TIMEOUT == 300

\* sys.exit(1) on the empty-input path
EMPTY_INPUT_EXIT == 1

\* a process exit status is 8 bits wide: exit(n) is observed as n mod 256
EXIT_STATUS_RANGE == 256

TIMEOUT_MESSAGE == "Test execution timed out after 5 minutes"

----------------------------------------------------------------------------
(* The child process: the outcomes of subprocess.run. *)

Exited(code, out, err) ==
    [exc |-> "none", returncode |-> code, stdout |-> out, stderr |-> err, msg |-> ""]

Raised(cls, text) ==
    [exc |-> cls, returncode |-> 0, stdout |-> "", stderr |-> "", msg |-> text]

NoChild == [exc |-> "pending", returncode |-> 0, stdout |-> "", stderr |-> "", msg |-> ""]

\* classes derived from Exception, which "except Exception" catches
ExceptionClasses ==
    {"TimeoutExpired", "FileNotFoundError", "PermissionError", "OSError"}

PassingOutcomes == {Exited(0, "1 feature passed", "")}

FailingOutcomes == {Exited(1, "", "boom")}

AnyOutcomes ==
    PassingOutcomes \cup FailingOutcomes \cup
    { Exited(2, "usage", ""),
      Raised("TimeoutExpired", "timed out after 300 seconds"),
      Raised("FileNotFoundError", "No such file or directory: 'behave'") }

ChildOutcomes(r) ==
    CASE r = "passing" -> PassingOutcomes
      [] r = "failing" -> FailingOutcomes
      [] OTHER -> AnyOutcomes

----------------------------------------------------------------------------
(* run_behave_file: the result record, or the exception that leaves it. *)

Result(f, s, out, err, rc, d) ==
    [file |-> f, success |-> s, output |-> out, error |-> err,
     returncode |-> rc, duration |-> d]

NoResult == Result("", FALSE, "", "", 0, 0)

Returns(r) == [state |-> "FINISHED", exception |-> "none", result |-> r]

Raises(cls) == [state |-> "FINISHED", exception |-> cls, result |-> NoResult]

Pending == [state |-> "PENDING", exception |-> "none", result |-> NoResult]

\* variant: success is read off an empty stderr instead of the exit code
run_behave_file_successFromStderr(feature_file, c) ==
    IF c.exc = "none"
    THEN Returns(Result(feature_file, c.stderr = "", c.stdout, c.stderr,
                        c.returncode, 0))
    ELSE IF c.exc = "TimeoutExpired"
    THEN Returns(Result(feature_file, FALSE, "", TIMEOUT_MESSAGE, 1, 300))
    ELSE IF c.exc \in ExceptionClasses
    THEN Returns(Result(feature_file, FALSE, "", c.msg, 1, 0))
    ELSE Raises(c.exc)

\* variant: no handler of its own for TimeoutExpired
run_behave_file_timeoutAsError(feature_file, c) ==
    IF c.exc = "none"
    THEN Returns(Result(feature_file, c.returncode = 0, c.stdout, c.stderr,
                        c.returncode, 0))
    ELSE IF c.exc \in ExceptionClasses
    THEN Returns(Result(feature_file, FALSE, "", c.msg, 1, 0))
    ELSE Raises(c.exc)

\* variant: only TimeoutExpired is handled
run_behave_file_noCatchAll(feature_file, c) ==
    IF c.exc = "none"
    THEN Returns(Result(feature_file, c.returncode = 0, c.stdout, c.stderr,
                        c.returncode, 0))
    ELSE IF c.exc = "TimeoutExpired"
    THEN Returns(Result(feature_file, FALSE, "", TIMEOUT_MESSAGE, 1, 300))
    ELSE Raises(c.exc)

\* lines 21-71: c is what subprocess.run did
run_behave_file(feature_file, c) ==
    IF c.exc = "none"
    THEN Returns(Result(feature_file, c.returncode = 0, c.stdout, c.stderr,
                        c.returncode, 0))
    ELSE IF c.exc = "TimeoutExpired"
    THEN Returns(Result(feature_file, FALSE, "", TIMEOUT_MESSAGE, 1, 300))
    ELSE IF c.exc \in ExceptionClasses
    THEN Returns(Result(feature_file, FALSE, "", c.msg, 1, 0))
    ELSE Raises(c.exc)

----------------------------------------------------------------------------
(* The invocation (lines 22-34).  An option value is None or a string. *)

None == [none |-> TRUE, s |-> ""]

Str(x) == [none |-> FALSE, s |-> x]

\* the truth value Python gives None or a string in "if v:"
Truthy(v) == ~v.none /\ v.s # ""

\* variant: the tag filter is tested against None only
build_cmd_tagsNotNone(behave_command, feature_file, tags, output_format, dry_run) ==
    <<behave_command, feature_file>>
    \o (IF ~tags.none THEN <<"--tags", tags.s>> ELSE <<>>)
    \o (IF Truthy(output_format) /\ output_format # Str("pretty")
        THEN <<"--format", output_format.s>> ELSE <<>>)
    \o (IF dry_run THEN <<"--dry-run">> ELSE <<>>)

build_cmd(behave_command, feature_file, tags, output_format, dry_run) ==
    <<behave_command, feature_file>>
    \o (IF Truthy(tags) THEN <<"--tags", tags.s>> ELSE <<>>)
    \o (IF Truthy(output_format) /\ output_format # Str("pretty")
        THEN <<"--format", output_format.s>> ELSE <<>>)
    \o (IF dry_run THEN <<"--dry-run">> ELSE <<>>)

\* the arguments main() passes (lines 155-159)
MainOptions ==
    [behave_command |-> "behave", tags |-> Str("@smoke"),
     output_format |-> Str("pretty"), dry_run |-> FALSE]

\* the arguments a caller of run_tests_in_parallel may pass
OptionSpace ==
    [behave_command : {"behave", "python -m behave"},
     tags : {None, Str(""), Str("@smoke"), Str("@wip")},
     output_format : {None, Str(""), Str("pretty"), Str("json")},
     dry_run : BOOLEAN]

----------------------------------------------------------------------------
(* features/steps/advanced_steps.py: values of the mocked application. *)

NoResponse == [none |-> TRUE, status |-> 0, message |-> ""]

\* {"status": 201, "message": "User created"}  (line 93)
Created == [none |-> FALSE, status |-> 201, message |-> "User created"]

\* test_data (line 178)
TestData == [id |-> 1, name |-> "Test Record", value |-> "test_value"]

\* the values of {user_count:d}
UserCounts == {100}

\* random.uniform(0.5, 2.0) (line 125), in tenths of a second
ResponseTimes == {5, 20}

\* the values of {max_response_time:d}, in seconds
MaxResponseTimes == {1, 3}

\* tenths in a second
TENTHS == 10

----------------------------------------------------------------------------
(* Helpers over sequences. *)

\* sum(1 for r in results if r['success'] is want)
CountIf(s, want) == Cardinality({i \in DOMAIN s : s[i].success = want})

\* [f for f in feature_files if os.path.exists(f)]
Filter(s, ex) == SelectSeq(s, LAMBDA f : f \in ex)

Items == DOMAIN existing_files

Running == {i \in Items : status[i] = "running"}

Queued == {i \in Items : status[i] = "queued"}

Line(k, f, t) == [kind |-> k, file |-> f, text |-> t, passed |-> 0, failed |-> 0]

\* the lines printed for one completed future (lines 110-114)
StatusLines(r) ==
    <<Line(IF r.success THEN "PASS" ELSE "FAIL", r.file, "")>> \o
    (IF ~r.success /\ r.error # "" THEN <<Line("error", r.file, r.error)>> ELSE <<>>)

\* variant: a failure is recognised by its error text
FailedResults_withError(s) == SelectSeq(s, LAMBDA r : r.error # "")

\* the itemized failure list (lines 129-131), in the order of the result list
FailedResults(s) == SelectSeq(s, LAMBDA r : ~r.success)

FailedLines(s) ==
    [k \in DOMAIN FailedResults(s) |->
        Line("failed", FailedResults(s)[k].file, FailedResults(s)[k].error)]

\* variant: the failure list is printed ahead of the summary line
SummaryLines_listFirst(rs, p, f) ==
    (IF f > 0 THEN <<Line("failed-header", "", "")>> \o FailedLines(rs) ELSE <<>>)
    \o <<[Line("summary", "", "") EXCEPT !.passed = p, !.failed = f]>>

\* the summary block (lines 123-131)
SummaryLines(rs, p, f) ==
    <<[Line("summary", "", "") EXCEPT !.passed = p, !.failed = f]>> \o
    (IF f > 0 THEN <<Line("failed-header", "", "")>> \o FailedLines(rs) ELSE <<>>)

\* passed = sum(1 for r in results if r['success'])  (line 120)
SummaryPassed(rs) == CountIf(rs, TRUE)

\* variant: failed counts the results that carry error text
SummaryFailed_byError(rs, p) == Cardinality({i \in DOMAIN rs : rs[i].error # ""})

\* failed = len(results) - passed  (line 121)
SummaryFailed(rs, p) == Len(rs) - p

\* variant: a plain failure flag
failed_count_flag(rs) == IF CountIf(rs, FALSE) > 0 THEN 1 ELSE 0

\* failed_count = sum(1 for r in results if not r['success'])  (line 163)
failed_count(rs) == CountIf(rs, FALSE)

\* variant: one thread per file
max_workers_perFile == Len(existing_files)

\* ThreadPoolExecutor(max_workers=max_processes)  (line 92)
max_workers == max_processes

\* variant: the dict is keyed by file, so a later future replaces an earlier
\* one of the same file
future_to_file_byFile ==
    {i \in Items : \A j \in Items : existing_files[j] = existing_files[i] => j <= i}

\* the keys of future_to_file (lines 94-103): one future per submitted file
future_to_file == Items

\* the future of item i was yielded by as_completed and handled by the loop
IsReported(i) == \E k \in DOMAIN reported : reported[k] = i

\* the exit status the parent of the process observes after sys.exit(n)
ProcessExitStatus(n) == n % EXIT_STATUS_RANGE

SeqsUpTo(S, n) == UNION {[1..k -> S] : k \in 0..n}

Min(S) == CHOOSE x \in S : \A y \in S : x <= y

----------------------------------------------------------------------------
(* The state before main() runs. *)

Idle ==
    /\ pc = "main"
    /\ existing_files = <<>>
    /\ status = <<>>
    /\ calls = <<>>
    /\ child = <<>>
    /\ future = <<>>
    /\ num_threads = 0
    /\ early = {}
    /\ waiter = <<>>
    /\ results = <<>>
    /\ stdout = <<>>
    /\ passed = 0
    /\ failed = 0
    /\ exit_arg = <<>>
    /\ cmd = <<>>
    /\ done_order = <<>>
    /\ reported = <<>>

\* TestContext.__init__ (lines 7-17), run once when the step module is loaded
NewTestContext ==
    [is_logged_in |-> FALSE, current_page |-> "None", api_token |-> "None",
     api_response |-> NoResponse, database_data |-> <<>>, theme |-> "light",
     response_time |-> 0, user_count |-> 0, is_authorized |-> FALSE,
     error_message |-> "None"]

NoStep == [name |-> "", ok |-> TRUE]

StepsIdle ==
    /\ test_context = NewTestContext
    /\ clicked = FALSE
    /\ last_step = NoStep

Init ==
    /\ StepsIdle
    /\ feature_files \in SeqsUpTo(Files, MaxFiles)
    /\ fs_existing \in SUBSET Files
    /\ max_processes \in 1..MaxProcs
    /\ runner = "any"
    /\ options = MainOptions
    /\ Idle

\* The state in which run_tests_in_parallel has just returned to main() for
\* a batch of n copies of one file, run one at a time by a runner that treats
\* every file alike.
ReturnedResults(n, r) ==
    [i \in 1..n |->
        run_behave_file("features/test.feature",
                        CHOOSE c \in ChildOutcomes(r) : TRUE).result]

\* the status lines of n results that all equal r
UniformStatusLines(n, r) ==
    [k \in 1..(n * Len(StatusLines(r))) |->
        StatusLines(r)[((k - 1) % Len(StatusLines(r))) + 1]]

InitReturned ==
    /\ StepsIdle
    /\ runner \in {"passing", "failing"}
    /\ options = MainOptions
    /\ \E n \in 1..WideFiles :
          /\ feature_files = [i \in 1..n |-> "features/test.feature"]
          /\ existing_files = feature_files
          /\ status = [i \in 1..n |-> "finished"]
          /\ calls = [i \in 1..n |-> 1]
          /\ child = [i \in 1..n |-> CHOOSE c \in ChildOutcomes(runner) : TRUE]
          /\ future = [i \in 1..n |->
                         run_behave_file(feature_files[i], child[i])]
          /\ results = ReturnedResults(n, runner)
          /\ cmd = [i \in 1..n |->
                      build_cmd(options.behave_command, feature_files[i],
                                options.tags, options.output_format,
                                options.dry_run)]
          /\ done_order = [i \in 1..n |-> [item |-> i, before_loop |-> FALSE]]
          /\ reported = [i \in 1..n |-> i]
    /\ fs_existing = {"features/test.feature"}
    /\ max_processes = 1
    /\ num_threads = 1
    /\ early = {}
    /\ waiter = <<>>
    /\ passed = SummaryPassed(results)
    /\ failed = SummaryFailed(results, passed)
    /\ stdout = <<Line("header", "", "")>> \o UniformStatusLines(Len(results), results[1])
                   \o SummaryLines(results, passed, failed)
    /\ pc = "returned"
    /\ exit_arg = <<>>

----------------------------------------------------------------------------
(* main() *)

\* variant: no check for an empty list before the call
MainEmpty_noCheck ==
    /\ pc = "main"
    /\ Filter(feature_files, fs_existing) = <<>>
    /\ results' = <<>>
    /\ stdout' = Append(stdout, Line("header", "", ""))
    /\ pc' = "submit"
    /\ UNCHANGED <<feature_files, fs_existing, max_processes, runner, existing_files,
                   status, calls, child, future, num_threads, early, waiter,
                   passed, failed, exit_arg,
                   options, cmd, done_order, reported>>
    /\ UNCHANGED stepVars

\* lines 146-150: nothing is left after the filter
MainEmpty ==
    /\ pc = "main"
    /\ Filter(feature_files, fs_existing) = <<>>
    /\ stdout' = Append(stdout, Line("no-files", "", "No feature files found!"))
    /\ exit_arg' = <<EMPTY_INPUT_EXIT>>
    /\ pc' = "exited"
    /\ UNCHANGED <<feature_files, fs_existing, max_processes, runner, existing_files,
                   status, calls, child, future, num_threads, early, waiter,
                   results, passed, failed,
                   options, cmd, done_order, reported>>
    /\ UNCHANGED stepVars

\* lines 146-153 and 79-92: the call of run_tests_in_parallel up to the pool
MainCall ==
    /\ pc = "main"
    /\ Filter(feature_files, fs_existing) # <<>>
    /\ existing_files' = Filter(feature_files, fs_existing)
    /\ status' = [i \in DOMAIN existing_files' |-> "unsubmitted"]
    /\ calls' = [i \in DOMAIN existing_files' |-> 0]
    /\ child' = [i \in DOMAIN existing_files' |-> NoChild]
    /\ future' = [i \in DOMAIN existing_files' |-> Pending]
    /\ results' = <<>>
    /\ stdout' = Append(stdout, Line("header", "", ""))
    /\ pc' = "submit"
    /\ cmd' = [i \in DOMAIN existing_files' |-> <<>>]
    /\ UNCHANGED <<feature_files, fs_existing, max_processes, runner, num_threads,
                   early, waiter, passed, failed, exit_arg,
                   options, done_order, reported>>
    /\ UNCHANGED stepVars

\* lines 163-164
MainExit ==
    /\ pc = "returned"
    /\ exit_arg' = <<failed_count(results)>>
    /\ pc' = "exited"
    /\ UNCHANGED <<feature_files, fs_existing, max_processes, runner, existing_files,
                   status, calls, child, future, num_threads, early, waiter,
                   results, stdout, passed, failed,
                   options, cmd, done_order, reported>>
    /\ UNCHANGED stepVars

----------------------------------------------------------------------------
(* run_tests_in_parallel: the main thread *)

\* executor.submit (lines 94-103): the next file of the list is queued, and
\* the pool starts a thread while it has fewer than max_workers.  Whether it
\* does so when an earlier item has already finished depends on the idle
\* bookkeeping of the interpreter's pool, so both are possible then.
Submit ==
    /\ pc = "submit"
    /\ \E i \in Items :
          /\ status[i] = "unsubmitted"
          /\ \A j \in Items : j < i => status[j] # "unsubmitted"
          /\ status' = [status EXCEPT ![i] = "queued"]
          /\ \E spawn \in (IF num_threads >= max_workers THEN {0}
                            ELSE IF \E j \in Items : status[j] = "finished"
                                 THEN {0, 1} ELSE {1}) :
                num_threads' = num_threads + spawn
    /\ UNCHANGED <<feature_files, fs_existing, max_processes, runner, pc,
                   existing_files, calls, child, future, early, waiter, results,
                   stdout, passed, failed, exit_arg,
                   options, cmd, done_order, reported>>
    /\ UNCHANGED stepVars

\* variant: the futures that finished before the loop are not looked at
AsCompleted_forgetsFinished ==
    /\ pc = "submit"
    /\ \A i \in Items : status[i] # "unsubmitted"
    /\ early' = {}
    /\ waiter' = <<>>
    /\ pc' = "collect"
    /\ UNCHANGED <<feature_files, fs_existing, max_processes, runner,
                   existing_files, status, calls, child, future, num_threads,
                   results, stdout, passed, failed, exit_arg, options, cmd,
                   done_order, reported>>
    /\ UNCHANGED stepVars

\* as_completed (line 106) is entered once every file is submitted: the
\* futures already finished are yielded first, in the order of a set
AsCompleted ==
    /\ pc = "submit"
    /\ \A i \in Items : status[i] # "unsubmitted"
    /\ early' = {i \in future_to_file : status[i] = "finished"}
    /\ waiter' = <<>>
    /\ pc' = "collect"
    /\ UNCHANGED <<feature_files, fs_existing, max_processes, runner,
                   existing_files, status, calls, child, future, num_threads,
                   results, stdout, passed, failed, exit_arg,
                   options, cmd, done_order, reported>>
    /\ UNCHANGED stepVars

\* one iteration of the loop (lines 106-114) over the yielded future i
CollectFuture(i) ==
    IF future[i].exception # "none"
    THEN /\ pc' = "raised"
         /\ UNCHANGED <<results, stdout, reported>>
    ELSE /\ results' = Append(results, future[i].result)
         /\ reported' = Append(reported, i)
         /\ stdout' = stdout \o StatusLines(future[i].result)
         /\ pc' = pc

\* variant: the loop waits for the futures in the order they were submitted
Collect_inSubmissionOrder ==
    /\ pc = "collect"
    /\ \E i \in Items :
          /\ status[i] = "finished"
          /\ \A k \in DOMAIN reported : reported[k] # i
          /\ \A j \in Items : j < i => \E k \in DOMAIN reported : reported[k] = j
          /\ early' = early \ {i}
          /\ waiter' = SelectSeq(waiter, LAMBDA x : x # i)
          /\ CollectFuture(i)
    /\ UNCHANGED <<feature_files, fs_existing, max_processes, runner,
                   existing_files, status, calls, child, future, num_threads,
                   passed, failed, exit_arg, options, cmd, done_order>>
    /\ UNCHANGED stepVars

Collect ==
    /\ pc = "collect"
    /\ \/ \E i \in early :
             /\ early' = early \ {i}
             /\ waiter' = waiter
             /\ CollectFuture(i)
       \/ /\ early = {}
          /\ waiter # <<>>
          /\ early' = early
          /\ waiter' = Tail(waiter)
          /\ CollectFuture(Head(waiter))
    /\ UNCHANGED <<feature_files, fs_existing, max_processes, runner,
                   existing_files, status, calls, child, future, num_threads,
                   passed, failed, exit_arg,
                   options, cmd, done_order>>
    /\ UNCHANGED stepVars

\* lines 116-133: as_completed has yielded every future of the dict, which
\* ends the loop, and the pool is shut down, which waits for every thread
Summary ==
    /\ pc = "collect"
    /\ \A i \in future_to_file : IsReported(i)
    /\ \A i \in Items : status[i] = "finished"
    /\ passed' = SummaryPassed(results)
    /\ failed' = SummaryFailed(results, passed')
    /\ stdout' = stdout \o SummaryLines(results, passed', failed')
    /\ pc' = "returned"
    /\ UNCHANGED <<feature_files, fs_existing, max_processes, runner,
                   existing_files, status, calls, child, future, num_threads,
                   early, waiter, results, exit_arg,
                   options, cmd, done_order, reported>>
    /\ UNCHANGED stepVars

----------------------------------------------------------------------------
(* The worker threads of the pool *)

\* variant: fail fast, a queued item is cancelled once some item has failed
WorkerStart_failFast ==
    /\ Queued # {}
    /\ Cardinality(Running) < num_threads
    /\ IF \E j \in Items : status[j] = "finished" /\ ~future[j].result.success
       THEN /\ status' = [status EXCEPT ![Min(Queued)] = "finished"]
            /\ future' = [future EXCEPT ![Min(Queued)] =
                             Returns(Result(existing_files[Min(Queued)], FALSE, "",
                                            "cancelled", 1, 0))]
            /\ waiter' = IF pc = "collect" THEN Append(waiter, Min(Queued)) ELSE waiter
            /\ done_order' = Append(done_order, [item |-> Min(Queued),
                                                 before_loop |-> pc # "collect"])
            /\ UNCHANGED <<calls, cmd>>
       ELSE /\ status' = [status EXCEPT ![Min(Queued)] = "running"]
            /\ calls' = [calls EXCEPT ![Min(Queued)] = @ + 1]
            /\ cmd' = [cmd EXCEPT ![Min(Queued)] =
                          build_cmd(options.behave_command,
                                    existing_files[Min(Queued)], options.tags,
                                    options.output_format, options.dry_run)]
            /\ UNCHANGED <<future, waiter, done_order>>
    /\ UNCHANGED <<feature_files, fs_existing, max_processes, runner, pc,
                   existing_files, child, num_threads, early, results, stdout,
                   passed, failed, exit_arg, options, reported>>
    /\ UNCHANGED stepVars

\* a free thread takes the oldest queued work item and calls run_behave_file
\* (lines 21-38)
WorkerStart ==
    /\ Queued # {}
    /\ Cardinality(Running) < num_threads
    /\ status' = [status EXCEPT ![Min(Queued)] = "running"]
    /\ calls' = [calls EXCEPT ![Min(Queued)] = @ + 1]
    /\ cmd' = [cmd EXCEPT ![Min(Queued)] =
                  build_cmd(options.behave_command, existing_files[Min(Queued)],
                            options.tags, options.output_format,
                            options.dry_run)]
    /\ UNCHANGED <<feature_files, fs_existing, max_processes, runner, pc,
                   existing_files, child, future, num_threads, early, waiter,
                   results, stdout, passed, failed, exit_arg,
                   options, done_order, reported>>
    /\ UNCHANGED stepVars

\* variant: an item that failed is queued again, once
WorkerReturn_retry ==
    /\ \E i \in Running : \E c \in ChildOutcomes(runner) :
          /\ child' = [child EXCEPT ![i] = c]
          /\ future' = [future EXCEPT ![i] = run_behave_file(existing_files[i], c)]
          /\ IF run_behave_file(existing_files[i], c).result.success \/ calls[i] >= 2
             THEN /\ status' = [status EXCEPT ![i] = "finished"]
                  /\ waiter' = IF pc = "collect" /\ i \in future_to_file
                               THEN Append(waiter, i) ELSE waiter
                  /\ done_order' = Append(done_order,
                                          [item |-> i, before_loop |-> pc # "collect"])
             ELSE /\ status' = [status EXCEPT ![i] = "queued"]
                  /\ UNCHANGED <<waiter, done_order>>
    /\ UNCHANGED <<feature_files, fs_existing, max_processes, runner, pc,
                   existing_files, calls, num_threads, early, results, stdout,
                   passed, failed, exit_arg, options, cmd, reported>>
    /\ UNCHANGED stepVars

\* variant: the worker appends its record to the shared list itself
WorkerReturn_appends ==
    /\ \E i \in Running : \E c \in ChildOutcomes(runner) :
          /\ child' = [child EXCEPT ![i] = c]
          /\ future' = [future EXCEPT ![i] = run_behave_file(existing_files[i], c)]
          /\ status' = [status EXCEPT ![i] = "finished"]
          /\ waiter' = IF pc = "collect" /\ i \in future_to_file
                       THEN Append(waiter, i) ELSE waiter
          /\ done_order' = Append(done_order,
                                  [item |-> i, before_loop |-> pc # "collect"])
          /\ results' = Append(results, run_behave_file(existing_files[i], c).result)
    /\ UNCHANGED <<feature_files, fs_existing, max_processes, runner, pc,
                   existing_files, calls, num_threads, early, stdout,
                   passed, failed, exit_arg, options, cmd, reported>>
    /\ UNCHANGED stepVars

\* subprocess.run ends (exit, timeout or error) and run_behave_file returns
\* (lines 38-71); the future is set and as_completed is notified
WorkerReturn ==
    /\ \E i \in Running : \E c \in ChildOutcomes(runner) :
          /\ child' = [child EXCEPT ![i] = c]
          /\ future' = [future EXCEPT ![i] = run_behave_file(existing_files[i], c)]
          /\ status' = [status EXCEPT ![i] = "finished"]
          /\ waiter' = IF pc = "collect" /\ i \in future_to_file
                       THEN Append(waiter, i) ELSE waiter
          /\ done_order' = Append(done_order,
                                  [item |-> i, before_loop |-> pc # "collect"])
    /\ UNCHANGED <<feature_files, fs_existing, max_processes, runner, pc,
                   existing_files, calls, num_threads, early, results, stdout,
                   passed, failed, exit_arg,
                   options, cmd, reported>>
    /\ UNCHANGED stepVars

----------------------------------------------------------------------------

Next ==
    \/ MainEmpty
    \/ MainCall
    \/ Submit
    \/ AsCompleted
    \/ Collect
    \/ Summary
    \/ MainExit
    \/ WorkerStart
    \/ WorkerReturn

Spec == Init /\ [][Next]_vars

\* The main thread and the worker threads are scheduled fairly, and a child
\* process ends by itself or is ended by the timeout of subprocess.run.
Fairness ==
    /\ WF_vars(MainEmpty)
    /\ WF_vars(MainCall)
    /\ WF_vars(Submit)
    /\ WF_vars(AsCompleted)
    /\ WF_vars(Collect)
    /\ WF_vars(Summary)
    /\ WF_vars(MainExit)
    /\ WF_vars(WorkerStart)
    /\ WF_vars(WorkerReturn)

FairSpec == Spec /\ Fairness

\* run_tests_in_parallel called with any combination of options, for one file
InitOptions ==
    /\ StepsIdle
    /\ feature_files \in SeqsUpTo(Files, 1)
    /\ fs_existing \in SUBSET Files
    /\ max_processes = 1
    /\ runner = "passing"
    /\ options \in OptionSpace
    /\ Idle

SpecCmd == InitOptions /\ [][Next]_vars

\* main() after run_tests_in_parallel returned a large uniform batch
SpecExit == InitReturned /\ [][MainExit]_vars

----------------------------------------------------------------------------
(* features/steps/advanced_steps.py: the step functions behave calls.  Every
   step reads and writes the one module-level test_context; a failed assert
   fails the step and changes nothing. *)

\* api_response["status"] == code; subscripting None raises, which fails the step
HasStatus(api_response, code) ==
    /\ ~api_response.none
    /\ api_response.status = code

\* bookkeeping of a step call: behave records the step's outcome
Ran(name, ok) ==
    /\ last_step' = [name |-> name, ok |-> ok]
    /\ UNCHANGED runnerVars

\* behave starts the next scenario: the step module stays loaded, and
\* nothing in it (no hook, no fixture) touches test_context
NewScenario ==
    /\ test_context' = test_context
    /\ clicked' = FALSE
    /\ last_step' = NoStep
    /\ UNCHANGED runnerVars

Step_OnLoginPage ==
    /\ Ran("I am on the login page", TRUE)
    /\ test_context' = [test_context EXCEPT !.current_page = "login"]
    /\ UNCHANGED clicked

Step_EnterValidCredentials ==
    /\ Ran("I enter valid credentials", TRUE)
    /\ test_context' = [test_context EXCEPT !.api_token = "valid_token_12345"]
    /\ UNCHANGED clicked

Step_ClickLogin ==
    /\ Ran("I click the login button", TRUE)
    /\ test_context' = [test_context EXCEPT !.is_logged_in = TRUE,
                                           !.current_page = "dashboard"]
    /\ clicked' = TRUE

Step_ShouldBeLoggedIn ==
    /\ Ran("I should be logged in successfully", test_context.is_logged_in /\ test_context.current_page = "dashboard")
    /\ UNCHANGED test_context
    /\ UNCHANGED clicked

Step_OnDashboard ==
    /\ Ran("I am on the dashboard", TRUE)
    /\ test_context' = [test_context EXCEPT !.current_page = "dashboard"]
    /\ UNCHANGED clicked

Step_NavigateToSettings ==
    /\ Ran("I navigate to the settings page", TRUE)
    /\ test_context' = [test_context EXCEPT !.current_page = "settings"]
    /\ UNCHANGED clicked

Step_ChangeThemeToDark ==
    /\ Ran("I change the theme to dark mode", TRUE)
    /\ test_context' = [test_context EXCEPT !.theme = "dark"]
    /\ UNCHANGED clicked

Step_ThemeApplied ==
    /\ Ran("the theme should be applied correctly", test_context.theme = "dark")
    /\ UNCHANGED test_context
    /\ UNCHANGED clicked

Step_UIResponsive ==
    /\ Ran("the UI should be responsive", test_context.current_page = "settings")
    /\ UNCHANGED test_context
    /\ UNCHANGED clicked

Step_HaveValidApiToken ==
    /\ Ran("I have a valid API token", TRUE)
    /\ test_context' = [test_context EXCEPT !.api_token = "valid_api_token_67890"]
    /\ UNCHANGED clicked

Step_PostUsers ==
    /\ Ran("I make a POST request to /api/users", TRUE)
    /\ test_context' = [test_context EXCEPT !.api_response = Created]
    /\ UNCHANGED clicked

Step_IncludeUserData ==
    /\ Ran("I include valid user data", TRUE)
    /\ UNCHANGED test_context
    /\ UNCHANGED clicked

Step_Status201 ==
    /\ Ran("the response should have status 201", HasStatus(test_context.api_response, 201))
    /\ UNCHANGED test_context
    /\ UNCHANGED clicked

Step_UserCreated ==
    /\ Ran("the user should be created in the database", HasStatus(test_context.api_response, 201))
    /\ UNCHANGED test_context
    /\ UNCHANGED clicked

Step_ConcurrentUsers ==
    \E user_count \in UserCounts :
        /\ Ran("I have {user_count:d} concurrent users", TRUE)
        /\ test_context' = [test_context EXCEPT !.user_count = user_count]
        /\ UNCHANGED clicked

Step_AccessSimultaneously ==
    \E t \in ResponseTimes :
        /\ Ran("they all access the application simultaneously", TRUE)
        /\ test_context' = [test_context EXCEPT !.response_time = t]
        /\ UNCHANGED clicked

Step_ResponseTimeLess ==
    \E max_response_time \in MaxResponseTimes :
        /\ Ran("the response time should be less than {max_response_time:d} seconds",
               test_context.response_time < max_response_time * TENTHS)
        /\ UNCHANGED test_context
        /\ UNCHANGED clicked

Step_SystemStable ==
    /\ Ran("the system should remain stable", test_context.response_time > 0)
    /\ UNCHANGED test_context
    /\ UNCHANGED clicked

Step_Unauthorized_logsOut ==
    /\ Ran("I am an unauthorized user", TRUE)
    /\ test_context' = [test_context EXCEPT !.is_authorized = FALSE,
                                           !.api_token = "None",
                                           !.is_logged_in = FALSE]
    /\ UNCHANGED clicked

Step_Unauthorized ==
    /\ Ran("I am an unauthorized user", TRUE)
    /\ test_context' = [test_context EXCEPT !.is_authorized = FALSE,
                                           !.api_token = "None"]
    /\ UNCHANGED clicked

Step_AccessProtected ==
    /\ Ran("I try to access a protected resource", TRUE)
    /\ test_context' = [test_context EXCEPT !.current_page = "login",
                                           !.error_message = "Authentication required"]
    /\ UNCHANGED clicked

Step_RedirectedToLogin ==
    /\ Ran("I should be redirected to the login page", test_context.current_page = "login")
    /\ UNCHANGED test_context
    /\ UNCHANGED clicked

Step_SeeAuthError ==
    /\ Ran("I should see an authentication error message", test_context.error_message # "None")
    /\ UNCHANGED test_context
    /\ UNCHANGED clicked

Step_CleanDatabase ==
    /\ Ran("I have a clean test database", TRUE)
    /\ test_context' = [test_context EXCEPT !.database_data = <<>>]
    /\ UNCHANGED clicked

Step_InsertTestData ==
    /\ Len(test_context.database_data) < MaxRecords
    /\ Ran("I insert test data", TRUE)
    /\ test_context' = [test_context EXCEPT
                            !.database_data = Append(@, TestData)]
    /\ UNCHANGED clicked

Step_QueryDatabase ==
    /\ Ran("I query the database", TRUE)
    /\ UNCHANGED test_context
    /\ UNCHANGED clicked

Step_RetrieveCorrectData ==
    /\ Ran("I should retrieve the correct data",
           /\ Len(test_context.database_data) > 0
           /\ test_context.database_data[1].name = "Test Record")
    /\ UNCHANGED test_context
    /\ UNCHANGED clicked

Step_DataFormatted ==
    /\ Ran("the data should be properly formatted",
           \A k \in 1..Len(test_context.database_data) :
               {"id", "name", "value"} \subseteq DOMAIN test_context.database_data[k])
    /\ UNCHANGED test_context
    /\ UNCHANGED clicked

NextSteps ==
    \/ NewScenario
    \/ Step_OnLoginPage
    \/ Step_EnterValidCredentials
    \/ Step_ClickLogin
    \/ Step_ShouldBeLoggedIn
    \/ Step_OnDashboard
    \/ Step_NavigateToSettings
    \/ Step_ChangeThemeToDark
    \/ Step_ThemeApplied
    \/ Step_UIResponsive
    \/ Step_HaveValidApiToken
    \/ Step_PostUsers
    \/ Step_IncludeUserData
    \/ Step_Status201
    \/ Step_UserCreated
    \/ Step_ConcurrentUsers
    \/ Step_AccessSimultaneously
    \/ Step_ResponseTimeLess
    \/ Step_SystemStable
    \/ Step_Unauthorized
    \/ Step_AccessProtected
    \/ Step_RedirectedToLogin
    \/ Step_SeeAuthError
    \/ Step_CleanDatabase
    \/ Step_InsertTestData
    \/ Step_QueryDatabase
    \/ Step_RetrieveCorrectData
    \/ Step_DataFormatted

\* behave has loaded the step module; the runner is not involved
InitSteps ==
    /\ StepsIdle
    /\ feature_files = <<>>
    /\ fs_existing = {}
    /\ max_processes = MaxProcs
    /\ runner = "any"
    /\ options = MainOptions
    /\ Idle

SpecSteps == InitSteps /\ [][NextSteps]_vars

----------------------------------------------------------------------------
(* Properties *)

Occurrences(s, f) == Cardinality({i \in DOMAIN s : s[i] = f})

ResultFiles == [i \in DOMAIN results |-> results[i].file]

BatchDone == pc \in {"returned", "exited"} /\ existing_files # <<>>

\* C1: once run_tests_in_parallel has returned there is exactly one result
\* per submitted file: the lengths agree, every file occurs among the results
\* as often as in the submitted list, and no item was ever run twice.
C1_OneResultPerItem ==
    /\ \A i \in Items : calls[i] <= 1
    /\ BatchDone =>
          /\ Len(results) = Len(existing_files)
          /\ \A f \in Files : Occurrences(ResultFiles, f) = Occurrences(existing_files, f)
          /\ \A i \in Items : calls[i] = 1

C1_Witness ==
    /\ pc = "returned"
    /\ Len(existing_files) >= 2
    /\ existing_files[1] = existing_files[2]
    /\ Len(results) = Len(existing_files)

\* C2: at most max_processes run_behave_file calls are in flight at any time
\* (the pool never has more than max_processes threads, and every call in
\* flight occupies one); the other submitted items are queued.
C2_ConcurrencyBound ==
    /\ Cardinality(Running) <= num_threads
    /\ num_threads <= max_processes

C2_Witness ==
    /\ Cardinality(Running) = max_processes
    /\ Queued # {}

\* C3: when the summary has been computed, passed + failed is the number of
\* submitted files, passed is the number of successful results and failed the
\* number of unsuccessful ones.
C3_SummaryCounts ==
    BatchDone =>
        /\ passed + failed = Len(existing_files)
        /\ passed = Cardinality({i \in DOMAIN results : results[i].success})
        /\ failed = Cardinality({i \in DOMAIN results : ~results[i].success})

C3_Witness ==
    /\ pc = "returned"
    /\ passed > 0
    /\ failed > 0
    /\ \E i \in DOMAIN results : ~results[i].success /\ results[i].error = ""

\* C4: for a non-empty batch the argument of sys.exit is the number of
\* unsuccessful results, which is the failed count of the summary.
C4_ExitIsFailedCount ==
    (pc = "exited" /\ existing_files # <<>>) =>
        /\ exit_arg = <<failed>>
        /\ exit_arg[1] = Cardinality({i \in DOMAIN results : ~results[i].success})

C4_Witness ==
    /\ pc = "exited"
    /\ existing_files # <<>>
    /\ exit_arg = <<2>>

C6_SuccessIffExitZero ==
    \A i \in Items :
        (status[i] = "finished" /\ child[i].exc = "none") =>
            /\ future[i].exception = "none"
            /\ future[i].result.returncode = child[i].returncode
            /\ future[i].result.success = (child[i].returncode = 0)

C6_Witness ==
    \E i, j \in Items :
        /\ status[i] = "finished" /\ child[i].exc = "none" /\ child[i].returncode = 0
        /\ status[j] = "finished" /\ child[j].exc = "none" /\ child[j].returncode = 2

\* C7: a child that runs into the timeout yields a returned result with
\* success false, returncode 1, empty output, the timeout message as error
\* and the bound as duration.
C7_TimeoutResult ==
    \A i \in Items :
        (status[i] = "finished" /\ child[i].exc = "TimeoutExpired") =>
            /\ future[i].exception = "none"
            /\ future[i].result =
                   Result(existing_files[i], FALSE, "", TIMEOUT_MESSAGE, 1, TIMEOUT)

C7_Witness ==
    \E i \in Items : status[i] = "finished" /\ child[i].exc = "TimeoutExpired"

\* C8: whatever the child does, run_behave_file returns a record and
\* future.result() does not raise in the dispatcher; a failure to launch or
\* talk to the child gives success false, returncode 1, the failure text as
\* error and duration 0.
C8_NoFaultCrosses ==
    /\ pc # "raised"
    /\ \A i \in Items :
          status[i] = "finished" =>
            /\ future[i].exception = "none"
            /\ child[i].exc \notin {"none", "TimeoutExpired"} =>
                  future[i].result =
                      Result(existing_files[i], FALSE, "", child[i].msg, 1, 0)

C8_Witness ==
    /\ pc = "returned"
    /\ \E i \in Items : child[i].exc = "FileNotFoundError"
    /\ \E i \in Items : child[i].exc = "none" /\ future[i].result.success

\* C9: when no candidate file exists, main reports the empty input and exits
\* with a nonzero status, and neither a worker thread nor a child process was
\* ever started.
C9_EmptyInput ==
    Filter(feature_files, fs_existing) = <<>> =>
        /\ num_threads = 0
        /\ Items = {}
        /\ pc \in {"main", "exited"}
        /\ pc = "exited" =>
              /\ ProcessExitStatus(exit_arg[1]) # 0
              /\ stdout = <<Line("no-files", "", "No feature files found!")>>

C9_Witness ==
    /\ pc = "exited"
    /\ feature_files # <<>>
    /\ Filter(feature_files, fs_existing) = <<>>

\* C10: the exit status of the empty-input condition differs from the exit
\* status of every non-empty batch in which items failed.
C10_EmptyExitDistinct ==
    (pc = "exited" /\ existing_files # <<>> /\ failed > 0) =>
        ProcessExitStatus(exit_arg[1]) # ProcessExitStatus(EMPTY_INPUT_EXIT)

\* C11: an item's outcome is its own.  Whatever the other items did, a
\* finished item was run exactly once, its record follows from its own file
\* and its own child process, nothing changes it afterwards, and when the
\* batch is done every item has finished and its record is in the list.
C11_OwnOutcome(i) ==
    /\ calls[i] = 1
    /\ child[i].exc # "pending"
    /\ future[i].exception = "none"
    /\ future[i].result.file = existing_files[i]
    /\ future[i].result.success = (child[i].exc = "none" /\ child[i].returncode = 0)
    /\ future[i].result.returncode =
           (IF child[i].exc = "none" THEN child[i].returncode ELSE 1)

C11_Inv ==
    \A i \in Items :
        /\ status[i] = "finished" => C11_OwnOutcome(i)
        /\ BatchDone =>
              /\ status[i] = "finished"
              /\ \E k \in DOMAIN reported :
                    reported[k] = i /\ results[k] = future[i].result

C11_Step ==
    \A i \in Items :
        status[i] = "finished" =>
            /\ status'[i] = "finished"
            /\ future'[i] = future[i]
            /\ child'[i] = child[i]

C11_Isolation == []C11_Inv /\ [][C11_Step]_vars

C11_Witness ==
    /\ pc = "returned"
    /\ Len(done_order) = 2
    /\ child[done_order[1].item].exc = "TimeoutExpired"
    /\ future[done_order[2].item].result.success

ReportedAt(i) == CHOOSE k \in DOMAIN reported : reported[k] = i

\* the PASS/FAIL lines printed so far
MarkerLines == SelectSeq(stdout, LAMBDA l : l.kind \in {"PASS", "FAIL"})

\* the list and the PASS/FAIL lines follow the order in which the loop
\* handled the futures
InReportOrder ==
    /\ Len(results) = Len(reported)
    /\ \A k \in DOMAIN reported : results[k] = future[reported[k]].result
    /\ MarkerLines =
           [k \in DOMAIN reported |->
               Line(IF future[reported[k]].result.success THEN "PASS" ELSE "FAIL",
                    existing_files[reported[k]], "")]

\* C12 as stated: records and status lines come in completion order, so an
\* item whose call returned before another's is never reported after it.
C12_CompletionOrder ==
    /\ InReportOrder
    /\ \A k1, k2 \in DOMAIN done_order :
          (k1 < k2 /\ IsReported(done_order[k2].item)) =>
              /\ IsReported(done_order[k1].item)
              /\ ReportedAt(done_order[k1].item) < ReportedAt(done_order[k2].item)

\* C12 as amended: the same, except that two items which both returned before
\* the as_completed loop began may be reported in either order.
C12_YieldOrder ==
    /\ InReportOrder
    /\ \A k1, k2 \in DOMAIN done_order :
          (/\ k1 < k2
           /\ IsReported(done_order[k2].item)
           /\ ~(done_order[k1].before_loop /\ done_order[k2].before_loop)) =>
              /\ IsReported(done_order[k1].item)
              /\ ReportedAt(done_order[k1].item) < ReportedAt(done_order[k2].item)

C12_Witness ==
    /\ reported = <<2, 1>>
    /\ done_order[1].item = 2
    /\ ~done_order[1].before_loop

HasTags == ~options.tags.none /\ options.tags.s # ""

HasFormat ==
    /\ ~options.output_format.none
    /\ options.output_format.s # ""
    /\ options.output_format.s # "pretty"

\* C13: the argument list of a started item is the command and the file,
\* then "--tags <tags>" iff a non-empty tag filter was given, then
\* "--format <format>" iff the format is non-empty and not "pretty", then
\* "--dry-run" iff dry-run was asked for; nothing else, and no empty argument.
C13_Invocation ==
    \A i \in Items :
        calls[i] > 0 =>
            LET c == cmd[i]
                t == IF HasTags THEN 2 ELSE 0
                f == IF HasFormat THEN 2 ELSE 0
                d == IF options.dry_run THEN 1 ELSE 0
            IN  /\ Len(c) = 2 + t + f + d
                /\ c[1] = options.behave_command
                /\ c[2] = existing_files[i]
                /\ HasTags => c[3] = "--tags" /\ c[4] = options.tags.s
                /\ HasFormat =>
                      c[3 + t] = "--format" /\ c[4 + t] = options.output_format.s
                /\ options.dry_run => c[Len(c)] = "--dry-run"
                /\ \A k \in DOMAIN c : c[k] # ""

C13_Witness ==
    \E i \in Items :
        /\ Len(cmd[i]) = 7
        /\ cmd[i][3] = "--tags"
        /\ cmd[i][5] = "--format"
        /\ cmd[i][7] = "--dry-run"

\* the terminal state of a finished item, read off its child process
Terminal(i) ==
    IF child[i].exc = "none"
    THEN (IF child[i].returncode = 0 THEN "Completed-Success" ELSE "Completed-Failure")
    ELSE IF child[i].exc = "TimeoutExpired" THEN "TimedOut"
    ELSE "LaunchError"

TimesReported(i) == Cardinality({k \in DOMAIN reported : reported[k] = i})

\* C14: every item moves unsubmitted -> queued -> running -> finished and in
\* no other way; it starts running only while fewer than max_processes items
\* run; a finished item stays finished in the same terminal state; an item
\* that has not finished was never reported, a finished item was run once and
\* has one record, reported at most once and, when the batch is done, once.
C14_Inv ==
    \A i \in Items :
        /\ status[i] \in {"unsubmitted", "queued", "running", "finished"}
        /\ status[i] \in {"unsubmitted", "queued"} => calls[i] = 0
        /\ status[i] = "running" => calls[i] = 1
        /\ status[i] # "finished" =>
              /\ child[i] = NoChild
              /\ future[i] = Pending
              /\ TimesReported(i) = 0
        /\ status[i] = "finished" =>
              /\ calls[i] = 1
              /\ child[i] \in AnyOutcomes
              /\ future[i].state = "FINISHED"
              /\ future[i].exception = "none"
              /\ future[i].result.success = (Terminal(i) = "Completed-Success")
              /\ TimesReported(i) <= 1
              /\ BatchDone => TimesReported(i) = 1

C14_Step ==
    \A i \in Items :
        /\ status'[i] # status[i] =>
              <<status[i], status'[i]>> \in
                  { <<"unsubmitted", "queued">>, <<"queued", "running">>,
                    <<"running", "finished">> }
        /\ (status[i] = "queued" /\ status'[i] = "running") =>
              Cardinality(Running) < max_processes
        /\ status[i] = "finished" =>
              /\ status'[i] = "finished"
              /\ child'[i] = child[i]

C14_StateMachine == []C14_Inv /\ [][C14_Step]_vars

C14_Witness ==
    /\ pc = "returned"
    /\ \E i, j \in Items : Terminal(i) = "TimedOut" /\ Terminal(j) = "LaunchError"
    /\ \A i \in Items : TimesReported(i) = 1

\* C15: a dispatched batch terminates: every item finishes and the summary
\* is produced, also with more items than workers.
C15_Terminates ==
    (pc = "submit") ~> (pc = "returned" /\ \A i \in Items : status[i] = "finished")

C15_Witness ==
    /\ pc = "returned"
    /\ Len(existing_files) > max_processes
    /\ \A i \in Items : status[i] = "finished"
    /\ stdout[Len(stdout)].kind \in {"summary", "failed"}

LinesOfKind(kinds) == {k \in DOMAIN stdout : stdout[k].kind \in kinds}

\* C16: the summary line is printed once, when the batch is done: every item
\* has finished and has its PASS/FAIL line (and error line) before it, no such
\* line comes after it, and the failure list comes after it and is there
\* exactly when some item failed.
C16_OutputOrder ==
    /\ Cardinality(LinesOfKind({"summary"})) = (IF BatchDone THEN 1 ELSE 0)
    /\ ~BatchDone => LinesOfKind({"failed-header", "failed"}) = {}
    /\ \A k \in LinesOfKind({"summary"}) :
          /\ \A i \in Items : status[i] = "finished" /\ IsReported(i)
          /\ Cardinality(LinesOfKind({"PASS", "FAIL"})) = Len(existing_files)
          /\ \A j \in LinesOfKind({"PASS", "FAIL", "error"}) : j < k
          /\ \A j \in LinesOfKind({"failed-header", "failed"}) : j > k
          /\ (LinesOfKind({"failed-header"}) # {}) <=>
                (\E i \in Items : ~future[i].result.success)
          /\ (LinesOfKind({"failed"}) # {}) <=>
                (\E i \in Items : ~future[i].result.success)

C16_Witness ==
    /\ pc = "returned"
    /\ LinesOfKind({"PASS"}) # {}
    /\ LinesOfKind({"error"}) # {}
    /\ LinesOfKind({"failed"}) # {}

\* the failure list as printed
FailedListLines == SelectSeq(stdout, LAMBDA l : l.kind = "failed")

DoneItems == [k \in DOMAIN done_order |-> done_order[k].item]

\* the entries expected for the failed items among a sequence of items
FailedEntries(items) ==
    LET F == SelectSeq(items, LAMBDA i : ~future[i].result.success)
    IN  [k \in DOMAIN F |->
            Line("failed", existing_files[F[k]], future[F[k]].result.error)]

\* C17 as stated: the failure list holds every failed item once, with its own
\* error text, and no passed item, in the order in which the calls returned.
C17_FailureListCompletionOrder ==
    BatchDone => FailedListLines = FailedEntries(DoneItems)

\* C17 as amended: the same, in the order in which the items were reported.
C17_FailureListReportOrder ==
    BatchDone => FailedListLines = FailedEntries(reported)

C17_Witness ==
    /\ pc = "returned"
    /\ reported = <<2, 1>>
    /\ Len(FailedListLines) = 2
    /\ FailedListLines[1].text # FailedListLines[2].text
    /\ FailedListLines[1].text = future[2].result.error

\* C18: the result list is written by the aggregating loop only.  A step
\* that changes the list is an iteration of the loop: it appends the record
\* of one finished future that was not handled before and touches no future;
\* a step of a worker (a future or a status changes) leaves the list alone.
\* So the list always holds, in order, the records of the futures handled,
\* each once.
C18_Inv ==
    /\ Len(results) = Len(reported)
    /\ \A k \in DOMAIN reported :
          /\ status[reported[k]] = "finished"
          /\ results[k] = future[reported[k]].result
    /\ \A k1, k2 \in DOMAIN reported : reported[k1] = reported[k2] => k1 = k2

C18_Step ==
    /\ results' # results =>
          /\ pc = "collect"
          /\ status' = status
          /\ future' = future
          /\ \E i \in Items :
                /\ status[i] = "finished"
                /\ ~IsReported(i)
                /\ results' = Append(results, future[i].result)
                /\ reported' = Append(reported, i)
    /\ (status' # status \/ future' # future) => results' = results

C18_SingleWriter == []C18_Inv /\ [][C18_Step]_vars

C18_Witness ==
    /\ pc = "returned"
    /\ max_processes = 2
    /\ Len(results) = 2
    /\ \A k \in DOMAIN done_order : ~done_order[k].before_loop

\* C19: the step fixtures share one process-wide test_context that no
\* scenario start resets, so once is_logged_in is true no step and no
\* scenario boundary makes it false again (not even 'I am an unauthorized
\* user'), and 'I should be logged in successfully' can pass in a scenario
\* that never clicked the login button.
C19_Step ==
    /\ test_context.is_logged_in => test_context'.is_logged_in
    /\ last_step' = NoStep => test_context' = test_context

C19_SharedContext == [][C19_Step]_vars

\* a scenario that never clicked the login button passed the login assertion
\* on the login an earlier scenario left behind
C19_Witness ==
    /\ ~clicked
    /\ last_step = [name |-> "I should be logged in successfully", ok |-> TRUE]
    /\ test_context.is_logged_in

====
